---- MODULE Spec2Model ----
(***************************************************************************)
(* Model of src/app.py: the extraction / normalisation / reconciliation    *)
(* pipeline of the ranking tool (analyze_images_with_gemini, the roster    *)
(* loading block, find_closest_name and the main run block).               *)
(*                                                                         *)
(* Text is a sequence of code points.  A cell value (a JSON value, a       *)
(* DataFrame cell) is a record [t, n, s]: t is its type tag, n its number  *)
(* when t = "num", s its text when t = "str".                              *)
(* The DataFrame column labels of the source are written in ASCII:         *)
(*   "Juni" (rank), "ShogunMei" (name), "Buko" (score),                    *)
(*   "TorokuMei" (matched name), "MeiinCode" (member code),                *)
(*   "Namae" / "Code" (the roster's name and code columns).                *)
(***************************************************************************)
EXTENDS Integers, Sequences, FiniteSets, TLC

VARIABLES
    pc,             \* position of the script run
    master_file,    \* the uploaded roster file (input)
    master_df,      \* the roster frame, or None
    roster_error,   \* TRUE once "roster could not be read" was shown
    uploaded_files, \* the batch: per image, what the inference call yields
    i,              \* number of images handled by the loop
    all_data,       \* accumulated raw records
    progress,       \* every value given to the progress bar, in order
    df_result,      \* the frame returned by analyze_images_with_gemini
    shown,          \* what the run showed: "none", "table", "nothing", "exception"
    displayed,      \* the frame given to st.dataframe and to the export, or None
    target_name,    \* matcher run: the candidate
    name_list,      \* matcher run: the roster names
    best            \* matcher run: the value find_closest_name returned

vars == <<pc, master_file, master_df, roster_error, uploaded_files, i, all_data,
          progress, df_result, shown, displayed, target_name, name_list, best>>

(***************************************************************************)
(* Values                                                                  *)
(***************************************************************************)
Num(k) == [t |-> "num", n |-> k, s |-> <<>>]
Str(x) == [t |-> "str", n |-> 0, s |-> x]
NaN == [t |-> "nan", n |-> 0, s |-> <<>>]
\* a JSON array used as a field value (an unhashable Python list)
ListVal == [t |-> "list", n |-> 0, s |-> <<>>]
None == [t |-> "none", n |-> 0, s |-> <<>>]

Range(f) == {f[k] : k \in DOMAIN f}

\* Python's str ordering: lexicographic by code point
RECURSIVE StrLess(_, _)
StrLess(x, y) ==
    IF y = <<>> THEN FALSE
    ELSE IF x = <<>> THEN TRUE
    ELSE IF Head(x) # Head(y) THEN Head(x) < Head(y)
    ELSE StrLess(Tail(x), Tail(y))

(***************************************************************************)
(* difflib.get_close_matches(word, possibilities, n=1, cutoff=0.6), for    *)
(* texts shorter than 200 elements (no automatic junk below that length).  *)
(* A ratio is kept exact as the pair <<numerator, denominator>>.           *)
(***************************************************************************)
CutoffNum == 6
CutoffDen == 10

RECURSIVE MatchLen(_, _, _, _, _, _)
\* length of the common run of a[i+1..ahi] and b[j+1..bhi]
MatchLen(a, b, ii, jj, ahi, bhi) ==
    IF ii < ahi /\ jj < bhi /\ a[ii + 1] = b[jj + 1]
    THEN 1 + MatchLen(a, b, ii + 1, jj + 1, ahi, bhi)
    ELSE 0

\* the longest of the candidate blocks, the one starting earliest in a, and of
\* those the one starting earliest in b; <<alo, blo, 0>> when nothing matches
LongestOf(cand, len, alo, blo) ==
    IF \A c \in cand : len[c] = 0
    THEN <<alo, blo, 0>>
    ELSE LET longest == CHOOSE n \in Range(len) : \A o \in Range(len) : o <= n
             top == {c \in cand : len[c] = longest}
             c == CHOOSE c \in top :
                     \A d \in top : c[1] < d[1] \/ (c[1] = d[1] /\ c[2] <= d[2])
         IN  <<c[1], c[2], longest>>

\* SequenceMatcher.find_longest_match on a[alo+1..ahi] and b[blo+1..bhi]
find_longest_match(a, b, alo, ahi, blo, bhi) ==
    LongestOf((alo .. ahi - 1) \X (blo .. bhi - 1),
              [c \in (alo .. ahi - 1) \X (blo .. bhi - 1) |->
                  MatchLen(a, b, c[1], c[2], ahi, bhi)],
              alo, blo)

RECURSIVE MatchCount(_, _, _, _, _, _)
RECURSIVE MatchCountAround(_, _, _, _, _, _, _)
\* the block m and the blocks to its left and to its right
MatchCountAround(a, b, alo, ahi, blo, bhi, m) ==
    IF m[3] = 0 THEN 0
    ELSE m[3]
         + (IF alo < m[1] /\ blo < m[2]
            THEN MatchCount(a, b, alo, m[1], blo, m[2]) ELSE 0)
         + (IF m[1] + m[3] < ahi /\ m[2] + m[3] < bhi
            THEN MatchCount(a, b, m[1] + m[3], ahi, m[2] + m[3], bhi) ELSE 0)

\* SequenceMatcher.get_matching_blocks: total size of the matching blocks
MatchCount(a, b, alo, ahi, blo, bhi) ==
    MatchCountAround(a, b, alo, ahi, blo, bhi, find_longest_match(a, b, alo, ahi, blo, bhi))

\* _calculate_ratio(matches, length)
calculate_ratio(matches, length) ==
    IF length > 0 THEN <<2 * matches, length>> ELSE <<1, 1>>

\* SequenceMatcher(a=x, b=word).ratio()
ratio(a, b) == calculate_ratio(MatchCount(a, b, 0, Len(a), 0, Len(b)), Len(a) + Len(b))

Occurrences(x, ch) == Cardinality({k \in 1 .. Len(x) : x[k] = ch})
Min(p, q) == IF p <= q THEN p ELSE q

\* SequenceMatcher.quick_ratio(): multiset intersection of the elements
quick_ratio(a, b) ==
    LET chars == {a[k] : k \in 1 .. Len(a)}
        RECURSIVE Sum(_)
        Sum(S) == IF S = {} THEN 0
                  ELSE LET ch == CHOOSE ch \in S : TRUE
                       IN  Min(Occurrences(a, ch), Occurrences(b, ch)) + Sum(S \ {ch})
    IN  calculate_ratio(Sum(chars), Len(a) + Len(b))

\* SequenceMatcher.real_quick_ratio()
real_quick_ratio(a, b) == calculate_ratio(Min(Len(a), Len(b)), Len(a) + Len(b))

RatioLess(r, q) == r[1] * q[2] < q[1] * r[2]
RatioEq(r, q) == r[1] * q[2] = q[1] * r[2]

\* faulty variant: the cutoff is tested with > in place of >=
ReachesCutoffStrict(r) == r[1] * CutoffDen > CutoffNum * r[2]
\* r >= cutoff
ReachesCutoff(r) == r[1] * CutoffDen >= CutoffNum * r[2]

\* the entries get_close_matches keeps: those passing the three tests
\* against the cutoff, tried in this order
CloseEnough(word, possibilities) ==
    {k \in 1 .. Len(possibilities) :
        /\ ReachesCutoff(real_quick_ratio(possibilities[k], word))
        /\ ReachesCutoff(quick_ratio(possibilities[k], word))
        /\ ReachesCutoff(ratio(possibilities[k], word))}

\* _nlargest(1, result): the largest (score, x) pair, as a list of x
Largest(possibilities, score) ==
    IF DOMAIN score = {} THEN <<>>
    ELSE <<possibilities[
             CHOOSE k \in DOMAIN score :
                \A l \in DOMAIN score :
                   ~(\/ RatioLess(score[k], score[l])
                     \/ /\ RatioEq(score[k], score[l])
                        /\ StrLess(possibilities[k], possibilities[l]))]>>

\* get_close_matches with n = 1
get_close_matches(word, possibilities) ==
    Largest(possibilities,
            [k \in CloseEnough(word, possibilities) |-> ratio(possibilities[k], word)])

\* line 127
FirstOrNone(matches) == IF matches # <<>> THEN Str(matches[1]) ELSE None

find_closest_name(target, names) ==
    IF target.t # "str" THEN None
    ELSE FirstOrNone(get_close_matches(target.s, names))

(***************************************************************************)
(* The matcher on its own: find_closest_name applied to every candidate    *)
(* and every roster of a bounded universe.                                 *)
(***************************************************************************)
MaxLen == 2
MaxRoster == 2
Alphabet == {97, 98}

SeqsUpTo(S, k) == UNION {[1 .. m -> S] : m \in 0 .. k}

\* a candidate and a roster name whose ratio is exactly 6/10
Abc == <<97, 98, 99>>
Abcdddd == <<97, 98, 99, 100, 100, 100, 100>>

\* roster names are non-empty text: astype(str) makes every cell text, and
\* read_excel reads an empty cell as NaN, which astype(str) turns into "nan"
RosterNames == (SeqsUpTo(Alphabet, MaxLen) \ {<<>>}) \cup {Abcdddd}
Candidates == {Str(x) : x \in SeqsUpTo(Alphabet, MaxLen) \cup {Abc}} \cup {Num(5), NaN, ListVal}

Idle ==
    /\ pc = "idle" /\ master_file = None /\ master_df = None
    /\ roster_error = FALSE /\ uploaded_files = <<>> /\ i = 0
    /\ all_data = <<>> /\ progress = <<>> /\ df_result = None /\ shown = "none"
    /\ displayed = None

MatchInit ==
    /\ Idle
    /\ target_name \in Candidates
    /\ name_list \in SeqsUpTo(RosterNames, MaxRoster)
    /\ best = None

\* one call of find_closest_name(target_name, name_list)
CallMatcher ==
    /\ pc = "idle"
    /\ pc' = "returned"
    /\ best' = find_closest_name(target_name, name_list)
    /\ UNCHANGED <<master_file, master_df, roster_error, uploaded_files, i, all_data,
                   progress, df_result, shown, displayed, target_name, name_list>>

MatchNext == CallMatcher
SpecMatch == MatchInit /\ [][MatchNext]_vars

(***************************************************************************)
(* Frames.  A frame is [columns: sequence of labels, rows: sequence of     *)
(* functions from the labels to cell values].                              *)
(***************************************************************************)
\* the keys of a JSON object, in the order the prompt asks for them
KeyOrder == <<"rank", "name", "score">>
Keys(rec) == SelectSeq(KeyOrder, LAMBDA c : c \in DOMAIN rec)

RECURSIVE AppendNew(_, _)
\* labels of ks not yet in cols, appended in their order
AppendNew(cols, ks) ==
    IF ks = <<>> THEN cols
    ELSE AppendNew(IF Head(ks) \in Range(cols) THEN cols ELSE Append(cols, Head(ks)),
                   Tail(ks))

RECURSIVE ColumnsOf(_)
\* pd.DataFrame(list of dicts): the columns are the keys in order of first appearance
ColumnsOf(data) ==
    IF data = <<>> THEN <<>>
    ELSE AppendNew(ColumnsOf(SubSeq(data, 1, Len(data) - 1)), Keys(data[Len(data)]))

\* pd.DataFrame(all_data): a key a record lacks is NaN in its row
DataFrame(data) ==
    LET cols == ColumnsOf(data)
    IN  [columns |-> cols,
         rows |-> [k \in 1 .. Len(data) |->
                      [c \in Range(cols) |->
                          IF c \in DOMAIN data[k] THEN data[k][c] ELSE NaN]]]

\* pd.DataFrame()
EmptyFrame == [columns |-> <<>>, rows |-> <<>>]

\* faulty variant: the main block tests "is not None" in place of .empty
IsEmptyIsNone(df) == df = None

\* DataFrame.empty
IsEmpty(df) == Len(df.columns) = 0 \/ Len(df.rows) = 0

\* the mapping of df.rename(columns={'rank': ..., 'name': ..., 'score': ...})
NewLabel(c) ==
    CASE c = "rank" -> "Juni"
      [] c = "name" -> "ShogunMei"
      [] c = "score" -> "Buko"
      [] OTHER -> c

rename(df) ==
    LET old(l) == CHOOSE c \in Range(df.columns) : NewLabel(c) = l
    IN  [columns |-> [k \in 1 .. Len(df.columns) |-> NewLabel(df.columns[k])],
         rows |-> [k \in 1 .. Len(df.rows) |->
                      [l \in {NewLabel(c) : c \in Range(df.columns)} |->
                          df.rows[k][old(l)]]]]

Subset == {"Juni", "ShogunMei"}

\* the rows drop_duplicates(subset=[...]) keeps: a row is dropped when an
\* earlier row has equal cells in the subset columns (NaN cells count as equal)
KeptRows(df) ==
    {k \in 1 .. Len(df.rows) :
        ~\E l \in 1 .. k - 1 : \A c \in Subset : df.rows[l][c] = df.rows[k][c]}

RowsAt(rows, idx) == [k \in 1 .. Len(idx) |-> rows[idx[k]]]

RECURSIVE Ascending(_)
\* the elements of a set of numbers as an ascending sequence
Ascending(S) ==
    IF S = {} THEN <<>>
    ELSE LET m == CHOOSE m \in S : \A o \in S : m <= o
         IN  <<m>> \o Ascending(S \ {m})

drop_duplicates(df) == [df EXCEPT !.rows = RowsAt(df.rows, Ascending(KeptRows(df)))]

\* drop_duplicates raises KeyError when a subset column is missing, and
\* TypeError when a cell of a subset column is unhashable (a list)
DropDuplicatesRaises(df) ==
    \/ ~(Subset \subseteq Range(df.columns))
    \/ \E k \in 1 .. Len(df.rows) : \E c \in Subset : df.rows[k][c].t = "list"

Digits == 48 .. 57

RECURSIVE ParseDigits(_)
ParseDigits(x) ==
    IF x = <<>> THEN 0
    ELSE 10 * ParseDigits(SubSeq(x, 1, Len(x) - 1)) + (x[Len(x)] - 48)

\* pd.to_numeric(..., errors='coerce') on one cell: a number stays, a text of
\* decimal digits is parsed, every other text of the universe and NaN become NaN
to_numeric(v) ==
    IF v.t = "num" THEN v
    ELSE IF v.t = "str" /\ v.s # <<>> /\ Range(v.s) \subseteq Digits
         THEN Num(ParseDigits(v.s))
         ELSE NaN

CoerceColumn(df, c) ==
    [df EXCEPT !.rows = [k \in 1 .. Len(df.rows) |->
                            [df.rows[k] EXCEPT ![c] = to_numeric(df.rows[k][c])]]]

RECURSIVE Orders(_, _, _)
\* the ascending arrangements of the rows S by column c: rows with equal
\* keys may come out in any order (the default sort is not stable)
Orders(rows, c, S) ==
    IF S = {} THEN {<<>>}
    ELSE UNION {{<<k>> \o rest : rest \in Orders(rows, c, S \ {k})} :
                k \in {k \in S : \A l \in S : rows[k][c].n <= rows[l][c].n}}

\* faulty variant: the sort is left out
sort_values_skipped(df, c) == {df}

\* df.sort_values(c): ascending, NaN last (in their original order)
sort_values(df, c) ==
    LET all == 1 .. Len(df.rows)
        nans == {k \in all : df.rows[k][c].t = "nan"}
    IN  {[df EXCEPT !.rows = RowsAt(df.rows, o \o Ascending(nans))] :
            o \in Orders(df.rows, c, all \ nans)}

\* lines 160-168 up to the sort: the frame before sort_values, or a raise
Normalized(data) ==
    LET df1 == rename(DataFrame(data))
    IN  IF DropDuplicatesRaises(df1) THEN [raised |-> TRUE, df |-> EmptyFrame]
        ELSE LET df2 == drop_duplicates(df1)
             IN  [raised |-> FALSE,
                  df |-> IF "Juni" \in Range(df2.columns)
                         THEN CoerceColumn(df2, "Juni") ELSE df2]

(***************************************************************************)
(* Inputs of a run                                                         *)
(***************************************************************************)
MaxImages == 2

Bob == <<66, 111, 98>>
Bab == <<66, 97, 98>>
Sam == <<83, 97, 109>>
\* the text the prompt asks for when a name is unreadable, which is also the
\* label the join gives an unmatched row
Fumei == <<19981, 26126>>
Dash == <<45>>
K01 == <<75, 48, 49>>
K02 == <<75, 48, 50>>
K09 == <<75, 48, 57>>

RecA == [rank |-> Num(1), name |-> Str(Bob), score |-> Num(100)]
RecB == [rank |-> Num(1), name |-> Str(Bob), score |-> Num(90)]
RecC == [rank |-> Str(<<49>>), name |-> Str(Bob), score |-> Num(100)]
RecD == [rank |-> Num(2), name |-> Str(Sam), score |-> Str(<<97, 98, 99>>)]
RecE == [rank |-> Str(<<78, 47, 65>>), name |-> Str(Fumei), score |-> Num(5)]
RecF == [name |-> Str(Bab), score |-> Num(7)]
RecG == [rank |-> ListVal, name |-> Str(Bob), score |-> Num(1)]
RecH == [rank |-> Num(3), name |-> Num(5), score |-> Num(80)]

\* the JSON arrays an image may yield
RecordLists ==
    {<<>>, <<RecA>>, <<RecB>>, <<RecC>>, <<RecD, RecA>>, <<RecE, RecA>>, <<RecF>>,
     <<RecF, RecD>>, <<RecG>>, <<RecH, RecD>>}

\* what handling one image runs into: the inference call raises, the text
\* is no JSON, the JSON is no array (here: one object), or an array of records
Outcomes ==
    {[kind |-> "raises", data |-> <<>>], [kind |-> "not_json", data |-> <<>>],
     [kind |-> "not_array", data |-> <<RecA>>]}
    \cup {[kind |-> "array", data |-> l] : l \in RecordLists}

Batches == UNION {[1 .. m -> Outcomes] : m \in 1 .. MaxImages}

Entry(nm, cd) == [Namae |-> nm, Code |-> cd]
File(cols, rs) == [readable |-> TRUE, columns |-> cols, rows |-> rs]

\* the roster files: none uploaded, one read_excel cannot read, rosters with
\* both columns, and files lacking the name or the code column
MasterFiles ==
    {None,
     [readable |-> FALSE, columns |-> <<>>, rows |-> <<>>],
     File(<<"Namae", "Code">>, <<>>),
     File(<<"Namae", "Code">>,
          <<Entry(Str(Bob), Str(K01)), Entry(Str(Bob), Str(K09)), Entry(Str(Sam), Str(K02))>>),
     File(<<"Namae", "Code">>,
          <<Entry(Str(Fumei), Str(Dash)), Entry(Num(5), Num(7)), Entry(NaN, Str(K02))>>),
     File(<<"Name", "Code">>, <<[Name |-> Str(Bob), Code |-> Str(K01)]>>),
     File(<<"Namae">>, <<[Namae |-> Str(Bob)], [Namae |-> Str(Sam)]>>)}

Init ==
    /\ pc = "roster"
    /\ master_file \in MasterFiles
    /\ master_df = None
    /\ roster_error = FALSE
    /\ uploaded_files \in Batches
    /\ i = 0
    /\ all_data = <<>>
    /\ progress = <<>>
    /\ df_result = None
    /\ shown = "none"
    /\ displayed = None
    /\ target_name = None /\ name_list = <<>> /\ best = None

(***************************************************************************)
(* Roster loading, lines 186-195                                           *)
(***************************************************************************)
RECURSIVE DigitsOf(_)
DigitsOf(k) == IF k < 10 THEN <<48 + k>> ELSE DigitsOf(k \div 10) \o <<48 + (k % 10)>>

\* Series.astype(str) on one cell
astype_str(v) ==
    CASE v.t = "str" -> v
      [] v.t = "num" -> Str(DigitsOf(v.n))
      [] OTHER -> Str(<<110, 97, 110>>)

AsTypeStr(df, c) ==
    [df EXCEPT !.rows = [k \in 1 .. Len(df.rows) |->
                            [df.rows[k] EXCEPT ![c] = astype_str(df.rows[k][c])]]]

ReadExcel(file) == [columns |-> file.columns, rows |-> file.rows]

\* the value of master_df after the block, and whether the except branch ran
LoadedRoster(file) ==
    IF file = None THEN [df |-> None, failed |-> FALSE]
    ELSE IF ~file.readable THEN [df |-> None, failed |-> TRUE]
    ELSE LET df0 == ReadExcel(file)
         IN  IF "Namae" \notin Range(df0.columns) THEN [df |-> df0, failed |-> TRUE]
             ELSE LET df1 == AsTypeStr(df0, "Namae")
                  IN  IF "Code" \notin Range(df1.columns)
                      THEN [df |-> df1, failed |-> TRUE]
                      ELSE [df |-> AsTypeStr(df1, "Code"), failed |-> FALSE]

LoadRoster ==
    /\ pc = "roster"
    /\ master_df' = LoadedRoster(master_file).df
    /\ roster_error' = LoadedRoster(master_file).failed
    /\ pc' = "button"
    /\ UNCHANGED <<master_file, uploaded_files, i, all_data, progress, df_result,
                   shown, displayed, target_name, name_list, best>>

(***************************************************************************)
(* analyze_images_with_gemini, lines 129-168                               *)
(***************************************************************************)
\* lines 130-136: the accumulator is empty and the bar is created at 0
StartAnalysis ==
    /\ pc = "button"
    /\ uploaded_files # <<>>
    /\ all_data' = <<>>
    /\ i' = 0
    /\ progress' = <<<<0, 1>>>>
    /\ pc' = "loop"
    /\ UNCHANGED <<master_file, master_df, roster_error, uploaded_files, df_result,
                   shown, displayed, target_name, name_list, best>>

\* faulty variant: the parsed JSON is accumulated without the isinstance test
ExtractedAnyJson(file) == file.data

\* faulty variant: the bar is given i / len in place of (i + 1) / len
ProgressValueLate(k, total) == <<k, total>>

\* line 155: the value given to the progress bar after image k + 1
ProgressValue(k, total) == <<k + 1, total>>

\* lines 140-153: the records one image adds to all_data
Extracted(file) == IF file.kind = "array" THEN file.data ELSE <<>>

\* lines 138-155: one iteration of the loop
ProcessImage ==
    /\ pc = "loop"
    /\ i < Len(uploaded_files)
    /\ all_data' = all_data \o Extracted(uploaded_files[i + 1])
    /\ progress' = Append(progress, ProgressValue(i, Len(uploaded_files)))
    /\ i' = i + 1
    /\ UNCHANGED <<pc, master_file, master_df, roster_error, uploaded_files, df_result,
                   shown, displayed, target_name, name_list, best>>

\* lines 157-168: the frame the function returns, or the exception it ends in
Normalize ==
    /\ pc = "loop"
    /\ i = Len(uploaded_files)
    /\ IF all_data = <<>>
       THEN /\ df_result' = EmptyFrame
            /\ pc' = "main"
            /\ UNCHANGED shown
       ELSE IF Normalized(all_data).raised
       THEN /\ df_result' = None
            /\ pc' = "done"
            /\ shown' = "exception"
       ELSE /\ df_result' \in sort_values(Normalized(all_data).df, "Juni")
            /\ pc' = "main"
            /\ UNCHANGED shown
    /\ UNCHANGED <<master_file, master_df, roster_error, uploaded_files, i, all_data,
                   progress, displayed, target_name, name_list, best>>

(***************************************************************************)
(* The main run block, lines 214-254                                       *)
(***************************************************************************)
\* Python truth of the value find_closest_name returned (line 223)
Truthy(v) == v # None /\ ~(v.t = "str" /\ v.s = <<>>)

\* master_df['Namae'].tolist()
master_names(roster) == [k \in 1 .. Len(roster.rows) |-> roster.rows[k]["Namae"].s]

\* line 222, for every row of the table
Matches(df, roster) ==
    [k \in 1 .. Len(df.rows) |->
        find_closest_name(df.rows[k]["ShogunMei"], master_names(roster))]

\* faulty variant: the code of the last roster entry of that name
CodeOfLast(roster, nm) ==
    LET hits == {k \in 1 .. Len(roster.rows) : roster.rows[k]["Namae"] = nm}
    IN  roster.rows[CHOOSE k \in hits : \A l \in hits : k >= l]["Code"]

\* line 225: the code of the first roster entry of that name
CodeOf(roster, nm) ==
    LET hits == {k \in 1 .. Len(roster.rows) : roster.rows[k]["Namae"] = nm}
    IN  roster.rows[CHOOSE k \in hits : \A l \in hits : k <= l]["Code"]

matched_names(m) == [k \in DOMAIN m |-> IF Truthy(m[k]) THEN m[k] ELSE Str(Fumei)]

matched_codes(roster, m) ==
    [k \in DOMAIN m |-> IF Truthy(m[k]) THEN CodeOf(roster, m[k]) ELSE Str(Dash)]

\* faulty variant: the column at loc is replaced, not shifted right
InsertColumnOver(df, loc, label, values) ==
    [columns |-> [df.columns EXCEPT ![loc + 1] = label],
     rows |-> [k \in 1 .. Len(df.rows) |->
                  [c \in (DOMAIN df.rows[k] \ {df.columns[loc + 1]}) \cup {label} |->
                      IF c = label THEN values[k] ELSE df.rows[k][c]]]]

\* DataFrame.insert(loc, label, values)
InsertColumn(df, loc, label, values) ==
    [columns |-> SubSeq(df.columns, 1, loc) \o <<label>>
                     \o SubSeq(df.columns, loc + 1, Len(df.columns)),
     rows |-> [k \in 1 .. Len(df.rows) |->
                  [c \in DOMAIN df.rows[k] \cup {label} |->
                      IF c = label THEN values[k] ELSE df.rows[k][c]]]]

\* lines 219-231 with the matcher's answers m: KeyError when the roster frame
\* has no code column and some row is matched, else the table with the two
\* columns inserted
JoinWith(df, roster, m) ==
    IF "Code" \notin Range(roster.columns) /\ \E k \in DOMAIN m : Truthy(m[k])
    THEN [raised |-> TRUE, df |-> None]
    ELSE [raised |-> FALSE,
          df |-> InsertColumn(InsertColumn(df, 1, "TorokuMei", matched_names(m)),
                              2, "MeiinCode", matched_codes(roster, m))]

\* lines 218-231: KeyError at line 219 when the roster frame has no name
\* column; no join when no roster frame is held
Reconciled(df, roster) ==
    IF roster = None THEN [raised |-> FALSE, df |-> df]
    ELSE IF "Namae" \notin Range(roster.columns) THEN [raised |-> TRUE, df |-> None]
    ELSE JoinWith(df, roster, Matches(df, roster))

\* what the run shows after lines 216-252
Shown(joined) == IF joined.raised THEN "exception" ELSE "table"

\* lines 216-252: the join when a roster frame is held, then table and export
ShowTable ==
    /\ pc = "main"
    /\ ~IsEmpty(df_result)
    /\ \E joined \in {Reconciled(df_result, master_df)} :
          /\ shown' = Shown(joined)
          /\ displayed' = joined.df
    /\ pc' = "done"
    /\ UNCHANGED <<master_file, master_df, roster_error, uploaded_files, i, all_data,
                   progress, df_result, target_name, name_list, best>>

\* lines 253-254: the "nothing could be read" message
ShowNothing ==
    /\ pc = "main"
    /\ IsEmpty(df_result)
    /\ shown' = "nothing"
    /\ pc' = "done"
    /\ UNCHANGED <<master_file, master_df, roster_error, uploaded_files, i, all_data,
                   progress, df_result, displayed, target_name, name_list, best>>

Next ==
    \/ LoadRoster
    \/ StartAnalysis
    \/ ProcessImage
    \/ Normalize
    \/ ShowTable
    \/ ShowNothing

Spec == Init /\ [][Next]_vars

(***************************************************************************)
(* Properties                                                              *)
(***************************************************************************)
Looping == pc \in {"loop", "main", "done"}
Finished == pc \in {"main", "done"}
HasTable == Finished /\ df_result # None /\ Len(df_result.rows) > 0
Failed(file) == file.kind # "array"
AtLeastCutoff(r) == r[1] * CutoffDen >= CutoffNum * r[2]

RECURSIVE RecordsOfSuccessful(_, _)
\* the records of the successful images among the first k, in image order
RecordsOfSuccessful(files, k) ==
    IF k = 0 THEN <<>>
    ELSE RecordsOfSuccessful(files, k - 1)
             \o (IF files[k].kind = "array" THEN files[k].data ELSE <<>>)

\* C1: skip and continue.  Whatever each image runs into (a raising call, text
\* that is no JSON, JSON that is no array, or success), the loop handles the
\* images one by one up to the last and never ends in an exception, and the
\* accumulated records are the records of the successful images so far, in
\* image order: a failed image adds nothing.
C1_SkipAndContinue ==
    /\ Looping =>
          /\ i \in 0 .. Len(uploaded_files)
          /\ all_data = RecordsOfSuccessful(uploaded_files, i)
          /\ Len(progress) = i + 1
    /\ pc = "loop" => shown = "none"
    /\ Finished => i = Len(uploaded_files)

C1_Witness ==
    /\ pc = "main"
    /\ \E k, l \in 1 .. Len(uploaded_files) :
          /\ k < l
          /\ uploaded_files[k].kind \in {"raises", "not_json", "not_array"}
          /\ uploaded_files[l].kind = "array"
          /\ uploaded_files[l].data # <<>>
    /\ all_data # <<>>

\* the canonical (numerically coerced) rank and the name of a raw record
CanonicalRank(rec) == IF "rank" \in DOMAIN rec THEN to_numeric(rec["rank"]) ELSE NaN
NameOfRecord(rec) == IF "name" \in DOMAIN rec THEN rec["name"] ELSE NaN
ScoreOfRecord(rec) == IF "score" \in DOMAIN rec THEN rec["score"] ELSE NaN
SamePair(rec, row) ==
    CanonicalRank(rec) = row["Juni"] /\ NameOfRecord(rec) = row["ShogunMei"]

\* C2: uniqueness.  The returned table has no two rows with the same
\* (canonical rank, name) pair, and the row kept for a pair is the first raw
\* record of that pair in arrival order.
C2_UniqueRankName ==
    HasTable =>
        /\ \A k, l \in 1 .. Len(df_result.rows) :
              k # l => \/ df_result.rows[k]["Juni"] # df_result.rows[l]["Juni"]
                       \/ df_result.rows[k]["ShogunMei"] # df_result.rows[l]["ShogunMei"]
        /\ \A k \in 1 .. Len(df_result.rows) :
              LET same == {j \in 1 .. Len(all_data) : SamePair(all_data[j], df_result.rows[k])}
                  first == CHOOSE j \in same : \A o \in same : j <= o
              IN  /\ same # {}
                  /\ df_result.rows[k]["Buko"] = ScoreOfRecord(all_data[first])

\* a raw record whose rank does not coerce to a number
RankUnparseable(rec) ==
    \/ "rank" \notin DOMAIN rec
    \/ rec["rank"].t = "nan"
    \/ rec["rank"].t = "str" /\ ~(rec["rank"].s # <<>> /\ Range(rec["rank"].s) \subseteq Digits)

\* C3: sorting.  In the returned table every rank is a number or null, the
\* numeric ranks ascend, every row with a null rank comes after every row with
\* a numeric rank, and every raw record whose rank failed coercion has its
\* row (null rank, its name) in the table.
C3_SortedNullsLast ==
    HasTable =>
        /\ \A k \in 1 .. Len(df_result.rows) : df_result.rows[k]["Juni"].t \in {"num", "nan"}
        /\ \A k, l \in 1 .. Len(df_result.rows) :
              k < l =>
                 /\ df_result.rows[k]["Juni"].t = "nan" => df_result.rows[l]["Juni"].t = "nan"
                 /\ df_result.rows[k]["Juni"].t = "num" /\ df_result.rows[l]["Juni"].t = "num"
                       => df_result.rows[k]["Juni"].n <= df_result.rows[l]["Juni"].n
        /\ \A j \in 1 .. Len(all_data) :
              RankUnparseable(all_data[j]) =>
                 \E k \in 1 .. Len(df_result.rows) :
                    /\ df_result.rows[k]["Juni"].t = "nan"
                    /\ df_result.rows[k]["ShogunMei"] = NameOfRecord(all_data[j])

C3_Witness ==
    /\ HasTable
    /\ Len(df_result.rows) >= 3
    /\ RankUnparseable(all_data[1])
    /\ df_result.rows[Len(df_result.rows)]["Juni"].t = "nan"
    /\ df_result.rows[1]["Juni"].t = "num"
    /\ \E j, o \in 1 .. Len(all_data) :
          /\ j < o
          /\ CanonicalRank(all_data[j]).t = "num" /\ CanonicalRank(all_data[o]).t = "num"
          /\ CanonicalRank(all_data[j]).n > CanonicalRank(all_data[o]).n

\* C4: the normaliser never raises on malformed rank or score fields.  For
\* every non-empty sequence of parsed records the normalisation returns a
\* table, and in it every rank and every score is a number or null.
C4_NormalizerNeverRaises ==
    (Finished /\ all_data # <<>>) =>
        /\ df_result # None
        /\ \A k \in 1 .. Len(df_result.rows) :
              \A c \in {"Juni", "Buko"} \cap Range(df_result.columns) :
                 df_result.rows[k][c].t \in {"num", "nan"}

\* the similarity of every roster entry to the candidate
Similarities == [k \in 1 .. Len(name_list) |-> ratio(name_list[k], target_name.s)]

ThresholdHolds(sim) ==
    /\ best = None <=> \A k \in DOMAIN sim : ~AtLeastCutoff(sim[k])
    /\ best # None =>
          \E k \in DOMAIN sim :
             /\ best = Str(name_list[k])
             /\ AtLeastCutoff(sim[k])
             /\ \A l \in DOMAIN sim : ~RatioLess(sim[k], sim[l])
    /\ (\E k \in DOMAIN sim : name_list[k] = target_name.s) => best = target_name

\* C5: the matcher's threshold.  A candidate that is no text gets no match.
\* For a text candidate there is no match exactly when no roster entry has a
\* similarity of at least 0.6; a match is a roster entry with a similarity of
\* at least 0.6 that no roster entry exceeds; and a candidate that is itself
\* a roster entry is returned as itself.
C5_MatcherThreshold ==
    pc = "returned" =>
        IF target_name.t # "str" THEN best = None ELSE ThresholdHolds(Similarities)

C5_Witness ==
    /\ pc = "returned"
    /\ best # None
    /\ best # target_name
    /\ \E l \in 1 .. Len(name_list) : ~AtLeastCutoff(Similarities[l])

\* C6: the join preserves rows.  The table shown has as many rows as the
\* table the normaliser returned, in the same order and with every cell of
\* the returned columns unchanged; without a roster it is that table, and
\* with a roster it differs only by the two added columns.
C6_JoinPreservesRows ==
    shown = "table" =>
        /\ Len(displayed.rows) = Len(df_result.rows)
        /\ \A k \in 1 .. Len(df_result.rows) :
              \A c \in Range(df_result.columns) :
                 /\ c \in DOMAIN displayed.rows[k]
                 /\ displayed.rows[k][c] = df_result.rows[k][c]
        /\ master_df = None => displayed = df_result
        /\ master_df # None =>
              /\ Len(displayed.columns) = Len(df_result.columns) + 2
              /\ Range(displayed.columns)
                    = Range(df_result.columns) \cup {"TorokuMei", "MeiinCode"}
              /\ \A k \in 1 .. Len(displayed.rows) :
                    DOMAIN displayed.rows[k] = Range(displayed.columns)

C6_Witness ==
    /\ shown = "table"
    /\ master_df # None
    /\ Len(displayed.rows) >= 2
    /\ \E k \in 1 .. Len(displayed.rows) : displayed.rows[k]["MeiinCode"] # Str(Dash)
    /\ \E k \in 1 .. Len(displayed.rows) : displayed.rows[k]["MeiinCode"] = Str(Dash)

\* C7: a roster failure is not fatal.  Once loading the roster file has
\* failed, a run whose normaliser returned ends either in the "nothing
\* extracted" message or in the plain returned table, without the join.
C7_RosterFailureNonFatal ==
    (roster_error /\ pc = "done" /\ df_result # None) =>
        \/ shown = "nothing"
        \/ shown = "table" /\ displayed = df_result

\* C8: the empty result.  A batch that yields no record makes the normaliser
\* return the empty table without an exception, and the run then ends in the
\* "nothing extracted" message with no table shown; a run ends in that
\* message only when the returned table has no row.
C8_EmptyResult ==
    /\ (Finished /\ all_data = <<>>) => df_result = EmptyFrame /\ shown # "exception"
    /\ (pc = "done" /\ all_data = <<>>) => shown = "nothing" /\ displayed = None
    /\ shown = "nothing" => df_result # None /\ Len(df_result.rows) = 0
    /\ shown = "table" => df_result # None /\ Len(df_result.rows) > 0

C8_Witness ==
    /\ pc = "done"
    /\ shown = "nothing"
    /\ master_df # None
    /\ \E k \in 1 .. Len(uploaded_files) : uploaded_files[k].kind = "raises"
    /\ \E k \in 1 .. Len(uploaded_files) :
          uploaded_files[k].kind = "array" /\ uploaded_files[k].data = <<>>

\* the matcher's answer for every row of the returned table
RowMatches ==
    [k \in 1 .. Len(df_result.rows) |->
        find_closest_name(df_result.rows[k]["ShogunMei"],
                          [e \in 1 .. Len(master_df.rows) |-> master_df.rows[e]["Namae"].s])]
EntriesNamed(nm) == {e \in 1 .. Len(master_df.rows) : master_df.rows[e]["Namae"] = nm}
FirstEntryNamed(nm) == CHOOSE e \in EntriesNamed(nm) : \A o \in EntriesNamed(nm) : e <= o
IsSentinel(row) == row["TorokuMei"] = Str(Fumei) /\ row["MeiinCode"] = Str(Dash)
AttachedOnMatch(row, m) ==
    m # None =>
        /\ EntriesNamed(m) # {}
        /\ row["TorokuMei"] = m
        /\ row["MeiinCode"] = master_df.rows[FirstEntryNamed(m)]["Code"]
Joined == shown = "table" /\ master_df # None

\* C9 as stated: in the joined table a row the matcher matched carries the
\* matched name and the code of the first roster entry of that name, which
\* exists; a row the matcher did not match carries the pair (unmatched
\* label, "-"); and a row carries that pair only when the matcher returned
\* no match.
C9_SentinelOnlyWhenNoMatch ==
    Joined =>
        \E m \in {RowMatches} :
            \A k \in 1 .. Len(displayed.rows) :
                /\ AttachedOnMatch(displayed.rows[k], m[k])
                /\ m[k] = None => IsSentinel(displayed.rows[k])
                /\ IsSentinel(displayed.rows[k]) => m[k] = None

\* C9 amended: as above, but a row carries the pair (unmatched label, "-")
\* when the matcher returned no match or when the matched roster entry itself
\* is named with the unmatched label and has the code "-".
C9_CodeAttachment ==
    Joined =>
        \E m \in {RowMatches} :
            \A k \in 1 .. Len(displayed.rows) :
                /\ AttachedOnMatch(displayed.rows[k], m[k])
                /\ m[k] = None => IsSentinel(displayed.rows[k])
                /\ IsSentinel(displayed.rows[k]) =>
                      \/ m[k] = None
                      \/ /\ m[k] = Str(Fumei)
                         /\ master_df.rows[FirstEntryNamed(Str(Fumei))]["Code"] = Str(Dash)

C9_Witness ==
    /\ Joined
    /\ \E m \in {RowMatches} :
          /\ \E k \in DOMAIN m :
                /\ m[k] # None
                /\ Cardinality({master_df.rows[e]["Code"] : e \in EntriesNamed(m[k])}) > 1
          /\ \E k \in DOMAIN m : m[k] = None

\* C10: progress.  After k images the bar has been given one value per image
\* on top of its initial 0, the k-th of them being k / N whether the image
\* succeeded or failed; the values strictly increase, and the last one is 1
\* when the loop has ended.
C10_Progress ==
    Looping =>
        /\ Len(progress) = i + 1
        /\ progress[1] = <<0, 1>>
        /\ \A k \in 1 .. i : progress[k + 1] = <<k, Len(uploaded_files)>>
        /\ \A k \in 1 .. Len(progress) - 1 : RatioLess(progress[k], progress[k + 1])
        /\ Finished =>
              /\ i = Len(uploaded_files)
              /\ progress[Len(progress)][1] = progress[Len(progress)][2]

C10_Witness ==
    /\ pc = "main"
    /\ Len(uploaded_files) >= 2
    /\ Failed(uploaded_files[1])
    /\ ~Failed(uploaded_files[Len(uploaded_files)])
    /\ Len(progress) = Len(uploaded_files) + 1

====
